---- MODULE Spec2Model ----
(***************************************************************************)
(* User Profile Manager (main.js): a single-process Node.js HTTP server    *)
(* keeping an array of user records in memory, mirrored to users.json.     *)
(*                                                                         *)
(* The request handler is an async function.  Node runs its synchronous    *)
(* part to completion; the only suspension point is                        *)
(* `await getRequestBody(req)`, reached by POST (immediately) and by PUT   *)
(* (after the target index has been located).  Hence one action per        *)
(* handler branch, and one per continuation after the await.               *)
(*                                                                         *)
(* Text (the file, response bodies) is a sequence of string tokens; the    *)
(* records in memory hold an integer id.  JSON.stringify / JSON.parse are  *)
(* the conversions between the two.                                        *)
(***************************************************************************)
EXTENDS Integers, Sequences, FiniteSets, Bags, TLC

\* ---------------------------------------------------------------- bounds
MaxId == 2             \* POST is only completed while the next id is <= MaxId
MaxInFlight == 1       \* requests that may be suspended in getRequestBody

\* ------------------------------------------------------ program constants
AUTH_TOKEN == "my-secret-token"

\* --------------------------------------------------------- request inputs
Absent == "undefined"                    \* a missing property / header / parameter
Methods == {"GET", "POST", "PUT", "DELETE", "OPTIONS", "PATCH"}
Paths == {"/users", "/other"}
AuthHeaders == {Absent, "Bearer " \o AUTH_TOKEN, "Bearer wrong"}
\* query.id is a string: absent, or the decimal digits of an id.  It is drawn
\* for the branches that read it (GET, PUT, DELETE) and absent elsewhere.
QueryIds == {Absent} \cup {ToString(n) : n \in 1..MaxId}

Names == {"ann"}
Emails == {"a@x"}
Roles == {"admin"}

\* The text of a request body, by what JSON.parse makes of it: text that
\* does not parse, the JSON literal null, or an object whose name, email and
\* role are each absent or a non-empty string (the name may also be empty).
\* Text that parses to a number, a string, a boolean or an array has none of
\* the three properties and is the object with all of them absent.
RawBodies ==
    {[kind |-> "malformed", name |-> Absent, email |-> Absent, role |-> Absent],
     [kind |-> "null", name |-> Absent, email |-> Absent, role |-> Absent]}
    \cup [kind : {"object"},
          name : {Absent, ""} \cup Names,
          email : {Absent} \cup Emails,
          role : {Absent} \cup Roles]

\* JavaScript truthiness of a property value: undefined and "" are falsy.
Truthy(v) == v \notin {Absent, ""}

\* ------------------------------------------------------------ conversions
\* Number(s) as applied by `u.id == query.id`: the integer a decimal string
\* denotes, NaN otherwise.
NaN == -1
ToNumber(s) ==
    IF \E n \in 0..(MaxId + 1) : ToString(n) = s
    THEN CHOOSE n \in 0..(MaxId + 1) : ToString(n) = s
    ELSE NaN

\* JSON.stringify of one record: the keys in insertion order, the id as digits.
StringifyUser(u) ==
    <<"{", "id", ToString(u.id), "name", u.name,
      "email", u.email, "role", u.role, "}">>

RecordTokens == 10

RECURSIVE StringifyUsers(_)
StringifyUsers(us) ==
    IF us = <<>> THEN <<>>
    ELSE StringifyUser(Head(us)) \o StringifyUsers(Tail(us))

\* JSON.stringify(users, null, 2)
Stringify(us) == <<"[">> \o StringifyUsers(us) \o <<"]">>

\* JSON.parse of the text of one record
ParseUser(t) ==
    [id |-> ToNumber(t[3]), name |-> t[5], email |-> t[7], role |-> t[9]]

RECURSIVE ParseUsers(_)
ParseUsers(t) ==
    IF Len(t) < RecordTokens THEN <<>>
    ELSE <<ParseUser(SubSeq(t, 1, RecordTokens))>>
         \o ParseUsers(SubSeq(t, RecordTokens + 1, Len(t)))

\* JSON.parse of the text of the file
Parse(t) == ParseUsers(SubSeq(t, 2, Len(t) - 1))

\* ------------------------------------------------------------------ state
VARIABLES
    users,      \* the in-memory array
    file,       \* the text of users.json
    up,         \* the process is running (FALSE once a rejection of the async
                \* handler went unhandled: Node 15 and later exit on it)
    req,        \* the bag of handlers suspended in `await getRequestBody(req)`
    resp        \* the last response written (status, payload) and the request
                \* it answers (method, pathname, authorization, query id, body)

vars == <<users, file, up, req, resp>>

\* A suspended handler: the locals of its closure that it reads on resuming
Suspended(m, a, q, i) == [method |-> m, authorization |-> a, id |-> q, userIndex |-> i]

NoneSuspended == EmptyBag

\* the body of a request whose handler never called getRequestBody
Unread == [kind |-> "unread", name |-> Absent, email |-> Absent, role |-> Absent]

NoResponse == [method |-> "", pathname |-> "", authorization |-> Absent,
               id |-> Absent, body |-> Unread, status |-> 0, payload |-> <<>>]

\* res.writeHead(status); res.end(payload) for the request (m, p, a, q, body)
RespondTo(m, p, a, q, body, status, payload) ==
    resp' = [method |-> m, pathname |-> p, authorization |-> a,
             id |-> q, body |-> body, status |-> status, payload |-> payload]

\* the same, by a branch that did not read the body
Respond(m, p, a, q, status, payload) == RespondTo(m, p, a, q, Unread, status, payload)

ErrorBody(msg) == <<"{", "error", msg, "}">>

\* ------------------------------------------------------------- startup
NoFile == <<>>

\* users.json as it may be found at startup: missing, or holding an array
\* of records with distinct integer ids.
InitialFiles ==
    {NoFile,
     Stringify(<<>>),
     Stringify(<<[id |-> 2, name |-> "ann", email |-> "a@x", role |-> "viewer"],
                 [id |-> 1, name |-> "ann", email |-> "a@x", role |-> "admin"]>>)}

\* lines 28-40: read the file, or create it holding the empty array
localFile(f) == IF f = NoFile THEN Stringify(<<>>) ELSE f

Init ==
    \E f \in InitialFiles :
        /\ file = localFile(f)
        /\ users = Parse(localFile(f))
        /\ up = TRUE
        /\ req = NoneSuspended
        /\ resp = NoResponse

\* ---------------------------------------------------------------- helpers
\* (variant: the file is written before the array is changed)
saveUsers_before(us) == file' = Stringify(users)

\* lines 45-47
saveUsers(us) == file' = Stringify(us)

\* (variant: any Authorization header is accepted)
isAuthenticated_anyHeader(authorization) == authorization # Absent

\* lines 50-53
isAuthenticated(authorization) == authorization = "Bearer " \o AUTH_TOKEN

\* getRequestBody: JSON.parse(body), or {} when that throws
EmptyObject == [kind |-> "object", name |-> Absent, email |-> Absent, role |-> Absent]
getRequestBody(raw) == IF raw.kind = "malformed" THEN EmptyObject ELSE raw

\* (variant: the id is taken for the position in the array)
findIndex_byPosition(us, q) ==
    IF ToNumber(q) \in 1..Len(us) THEN ToNumber(q) - 1 ELSE -1

\* users.findIndex(u => u.id == q): 0-based, -1 when there is none
findIndex(us, q) ==
    IF \E i \in 1..Len(us) : us[i].id = ToNumber(q)
    THEN (CHOOSE i \in 1..Len(us) :
            /\ us[i].id = ToNumber(q)
            /\ \A j \in 1..(i - 1) : us[j].id # ToNumber(q)) - 1
    ELSE -1

\* Math.max(...users.map(u => u.id))
RECURSIVE MaxOf(_)
MaxOf(us) ==
    IF Len(us) = 1 THEN us[1].id
    ELSE IF us[1].id >= MaxOf(Tail(us)) THEN us[1].id ELSE MaxOf(Tail(us))

\* (variant: the element after userIndex is removed)
splice_offByOne(us, userIndex) ==
    SubSeq(us, 1, userIndex + 1) \o SubSeq(us, userIndex + 3, Len(us))

\* (variant: two elements are removed)
splice_two(us, userIndex) ==
    SubSeq(us, 1, userIndex) \o SubSeq(us, userIndex + 3, Len(us))

\* users.splice(userIndex, 1): the array without the element at userIndex
splice(us, userIndex) ==
    SubSeq(us, 1, userIndex) \o SubSeq(us, userIndex + 2, Len(us))

\* (variant: the length of the array plus one)
newId_length(us) == Len(us) + 1

\* (variant: the maximum id, not incremented)
newId_max(us) == IF Len(us) > 0 THEN MaxOf(us) ELSE 1

\* line 137
newId(us) == IF Len(us) > 0 THEN MaxOf(us) + 1 ELSE 1

\* (variant: the new record is put before the others)
push_front(us, u) == <<u>> \o us

\* (variant: the new record takes the place of the last one)
push_overLast(us, u) == IF us = <<>> THEN <<u>> ELSE [us EXCEPT ![Len(us)] = u]

\* users.push(newUser): the array with the record after all the others
push(us, u) == Append(us, u)

\* the handler r suspends / resumes
Suspend(r) == req' = req (+) SetToBag({r})
Resume(r) == req' = req (-) SetToBag({r})
CanSuspend == BagCardinality(req) < MaxInFlight

\* ------------------------------------------------- synchronous branches
\* (variant: the preflight branch placed after the auth check)
Preflight_afterAuth ==
    \E p \in Paths, a \in AuthHeaders :
        /\ up
        /\ IF isAuthenticated(a)
           THEN Respond("OPTIONS", p, a, Absent, 200, <<>>)
           ELSE Respond("OPTIONS", p, a, Absent, 401,
                        ErrorBody("Unauthorized. Use Bearer token."))
        /\ UNCHANGED <<users, file, up, req>>

\* lines 86-90
Preflight ==
    \E p \in Paths, a \in AuthHeaders :
        /\ up
        /\ Respond("OPTIONS", p, a, Absent, 200, <<>>)
        /\ UNCHANGED <<users, file, up, req>>

\* lines 93-97
Unauthorized ==
    \E m \in Methods \ {"OPTIONS"}, p \in Paths, a \in AuthHeaders :
        /\ up
        /\ ~isAuthenticated(a)
        /\ Respond(m, p, a, Absent, 401, ErrorBody("Unauthorized. Use Bearer token."))
        /\ UNCHANGED <<users, file, up, req>>

\* lines 212-215
RouteNotFound ==
    \E m \in Methods \ {"OPTIONS"}, p \in Paths \ {"/users"}, a \in AuthHeaders :
        /\ up
        /\ isAuthenticated(a)
        /\ Respond(m, p, a, Absent, 404, ErrorBody("Route not found"))
        /\ UNCHANGED <<users, file, up, req>>

\* (variant: the method is checked before the path)
MethodNotAllowed_anyPath ==
    \E m \in Methods \ {"OPTIONS", "GET", "POST", "PUT", "DELETE"},
       p \in Paths, a \in AuthHeaders :
        /\ up
        /\ isAuthenticated(a)
        /\ Respond(m, p, a, Absent, 405, ErrorBody("Method not allowed"))
        /\ UNCHANGED <<users, file, up, req>>

\* lines 205-208
MethodNotAllowed ==
    \E m \in Methods \ {"OPTIONS", "GET", "POST", "PUT", "DELETE"}, a \in AuthHeaders :
        /\ up
        /\ isAuthenticated(a)
        /\ Respond(m, "/users", a, Absent, 405, ErrorBody("Method not allowed"))
        /\ UNCHANGED <<users, file, up, req>>

\* (variant: the listing sorts the array in place before it is sent)
GetUsers_sortsInPlace ==
    \E a \in AuthHeaders, q \in QueryIds :
        /\ up
        /\ isAuthenticated(a)
        /\ IF Truthy(q)
           THEN /\ IF findIndex(users, q) # -1
                   THEN Respond("GET", "/users", a, q, 200,
                                StringifyUser(users[findIndex(users, q) + 1]))
                   ELSE Respond("GET", "/users", a, q, 404, ErrorBody("User not found"))
                /\ UNCHANGED users
           ELSE LET sorted == CHOOSE s \in [1..Len(users) -> {users[i] : i \in 1..Len(users)}] :
                                  \A i, j \in 1..Len(users) : i < j => s[i].id < s[j].id
                IN /\ Respond("GET", "/users", a, q, 200, Stringify(sorted))
                   /\ users' = sorted
        /\ UNCHANGED <<file, up, req>>

\* lines 103-122
GetUsers ==
    \E a \in AuthHeaders, q \in QueryIds :
        /\ up
        /\ isAuthenticated(a)
        /\ IF Truthy(q)
           THEN IF findIndex(users, q) # -1
                THEN Respond("GET", "/users", a, q, 200,
                             StringifyUser(users[findIndex(users, q) + 1]))
                ELSE Respond("GET", "/users", a, q, 404, ErrorBody("User not found"))
           ELSE Respond("GET", "/users", a, q, 200, Stringify(users))
        /\ UNCHANGED <<users, file, up, req>>

\* lines 182-202
DeleteUsers ==
    \E a \in AuthHeaders, q \in QueryIds :
        /\ up
        /\ isAuthenticated(a)
        /\ IF ~Truthy(q)
           THEN /\ Respond("DELETE", "/users", a, q, 400, ErrorBody("User ID is required"))
                /\ UNCHANGED <<users, file>>
           ELSE IF findIndex(users, q) = -1
           THEN /\ Respond("DELETE", "/users", a, q, 404, ErrorBody("User not found"))
                /\ UNCHANGED <<users, file>>
           ELSE LET userIndex == findIndex(users, q)
                    deletedUser == users[userIndex + 1]
                IN /\ users' = splice(users, userIndex)
                   /\ saveUsers(splice(users, userIndex))
                   /\ Respond("DELETE", "/users", a, q, 200,
                              <<"{", "message", "User deleted", "user">>
                              \o StringifyUser(deletedUser) \o <<"}">>)
        /\ UNCHANGED <<up, req>>

\* ------------------------------------------------------------- POST /users
\* lines 125-126: the handler suspends in getRequestBody
PostUsers ==
    \E a \in AuthHeaders :
        /\ up
        /\ isAuthenticated(a)
        /\ CanSuspend
        /\ Suspend(Suspended("POST", a, Absent, -1))
        /\ UNCHANGED <<users, file, up, resp>>

\* lines 126-148: the body has ended, the handler resumes
PostBody(r) ==
    \E raw \in RawBodies :
        LET body == getRequestBody(raw)
        IN /\ up
           /\ r.method = "POST"
           /\ IF body.kind = "null"
              THEN \* body.name on null throws: the rejection is unhandled and
                   \* the process exits, with every suspended handler
                   /\ up' = FALSE
                   /\ req' = NoneSuspended
                   /\ UNCHANGED <<users, file, resp>>
              ELSE IF ~Truthy(body.name) \/ ~Truthy(body.email)
              THEN /\ RespondTo("POST", "/users", r.authorization, r.id, body, 400,
                                ErrorBody("Name and email are required"))
                   /\ Resume(r)
                   /\ UNCHANGED <<users, file, up>>
              ELSE LET newUser == [id |-> newId(users),
                                   name |-> body.name,
                                   email |-> body.email,
                                   role |-> IF Truthy(body.role) THEN body.role
                                            ELSE "viewer"]
                   IN /\ newUser.id <= MaxId
                      /\ users' = push(users, newUser)
                      /\ saveUsers(push(users, newUser))
                      /\ RespondTo("POST", "/users", r.authorization, r.id, body, 201,
                                   StringifyUser(newUser))
                      /\ Resume(r)
                      /\ UNCHANGED up

\* ------------------------------------------------------------- PUT /users
\* lines 151-168: 400, 404, or suspend with the index that was found
PutUsers ==
    \E a \in AuthHeaders, q \in QueryIds :
        /\ up
        /\ isAuthenticated(a)
        /\ IF ~Truthy(q)
           THEN /\ Respond("PUT", "/users", a, q, 400, ErrorBody("User ID is required"))
                /\ UNCHANGED req
           ELSE IF findIndex(users, q) = -1
           THEN /\ Respond("PUT", "/users", a, q, 404, ErrorBody("User not found"))
                /\ UNCHANGED req
           ELSE /\ CanSuspend
                /\ Suspend(Suspended("PUT", a, q, findIndex(users, q)))
                /\ UNCHANGED resp
        /\ UNCHANGED <<users, file, up>>

\* lines 171-173 applied to the element at userIndex
UpdateFields(u, body) ==
    [id |-> u.id,
     name |-> IF Truthy(body.name) THEN body.name ELSE u.name,
     email |-> IF Truthy(body.email) THEN body.email ELSE u.email,
     role |-> IF Truthy(body.role) THEN body.role ELSE u.role]

\* lines 168-178: the body has ended, the handler resumes with its userIndex
PutBody(r) ==
    \E raw \in RawBodies :
        LET body == getRequestBody(raw)
            i == r.userIndex + 1
            defined == i <= Len(users)          \* users[userIndex] is not undefined
            writes == Truthy(body.name) \/ Truthy(body.email) \/ Truthy(body.role)
        IN /\ up
           /\ r.method = "PUT"
           /\ IF body.kind = "null" \/ (~defined /\ writes)
              THEN \* body.name on null, or a property set on undefined, throws
                   /\ up' = FALSE
                   /\ req' = NoneSuspended
                   /\ UNCHANGED <<users, file, resp>>
              ELSE LET updated == IF defined
                                  THEN [users EXCEPT ![i] = UpdateFields(users[i], body)]
                                  ELSE users
                   IN /\ users' = updated
                      /\ saveUsers(updated)
                      /\ RespondTo("PUT", "/users", r.authorization, r.id, body, 200,
                                   IF defined THEN StringifyUser(updated[i]) ELSE <<>>)
                      /\ Resume(r)
                      /\ UNCHANGED up

\* --------------------------------------------------------------- restart
\* lines 28-42 run again: the process is started anew; the handlers that were
\* suspended are gone and the new process has written no response yet
Restart ==
    /\ users' = Parse(localFile(file))
    /\ file' = localFile(file)
    /\ up' = TRUE
    /\ req' = NoneSuspended
    /\ resp' = NoResponse

\* the 'end' event of a suspended request: its handler resumes
PostResumes == \E r \in BagToSet(req) : PostBody(r)
PutResumes == \E r \in BagToSet(req) : PutBody(r)

Next ==
    \/ Preflight
    \/ Unauthorized
    \/ RouteNotFound
    \/ MethodNotAllowed
    \/ GetUsers
    \/ DeleteUsers
    \/ PostUsers
    \/ PostResumes
    \/ PutUsers
    \/ PutResumes
    \/ Restart

Spec == Init /\ [][Next]_vars

TypeOK ==
    /\ up \in BOOLEAN
    /\ \A i \in 1..Len(users) : users[i].id \in 1..MaxId


\* ------------------------------------------------ overlapping POST reads
\* lines 125-126 once more: a POST handler holds nothing across its await,
\* so one more of them may be suspended while all the suspended are POSTs
PostOverlaps ==
    \E a \in AuthHeaders :
        /\ up
        /\ isAuthenticated(a)
        /\ \A r \in BagToSet(req) : r.method = "POST"
        /\ BagCardinality(req) = MaxInFlight
        /\ Suspend(Suspended("POST", a, Absent, -1))
        /\ UNCHANGED <<users, file, up, resp>>

NextOverlap ==
    \/ Next
    \/ PostOverlaps

SpecOverlap == Init /\ [][NextOverlap]_vars

\* ------------------------------------------------------------ observation
Ids(us) == {us[i].id : i \in 1..Len(us)}
IdSeq(us) == [i \in 1..Len(us) |-> us[i].id]

\* This step writes a response: it is not a suspension (the bag grows), not an
\* unhandled rejection (the process is gone) and not a restart (no response yet).
Answers ==
    /\ up'
    /\ resp'.status # 0
    /\ BagCardinality(req') <= BagCardinality(req)

AnswersWith(m, status) == Answers /\ resp'.method = m /\ resp'.status = status

\* the record in the payload of a 200 DELETE: {message, user: {...}}
DeletedUser(payload) == ParseUser(SubSeq(payload, 5, 4 + RecordTokens))

\* what GET /users?id=n answers from the array us
GetById(us, n) ==
    IF \E i \in 1..Len(us) : us[i].id = n
    THEN StringifyUser(us[CHOOSE i \in 1..Len(us) :
                            us[i].id = n /\ \A j \in 1..(i - 1) : us[j].id # n])
    ELSE ErrorBody("User not found")

\* ------------------------------------------------------------------ claims

C2_IdsUniqueAndImmutable ==
    /\ [](\A i, j \in 1..Len(users) : i # j => users[i].id # users[j].id)
    /\ [][\/ IdSeq(users') = IdSeq(users)
          \/ \E k \in 1..Len(users) :
                IdSeq(users') = SubSeq(IdSeq(users), 1, k - 1)
                                \o SubSeq(IdSeq(users), k + 1, Len(users))
          \/ /\ Len(users') = Len(users) + 1
             /\ SubSeq(IdSeq(users'), 1, Len(users)) = IdSeq(users)]_vars

C2_Witness ==
    /\ resp.method = "PUT"
    /\ resp.status = 200
    /\ resp.body.role = "admin"
    /\ Len(users) = 2
    /\ users[1].id # users[2].id

\* C3: in every state (after startup, and so whenever a response to a create,
\* update or delete is written) reading the file back gives the in-memory
\* collection: the same records, field for field, in the same order.
C3_FileMatchesMemory == Parse(file) = users

C3_Witness ==
    /\ resp.method = "DELETE"
    /\ resp.status = 200
    /\ Len(users) = 1
    /\ Parse(file) = users

\* C4: a request whose method is not OPTIONS and whose Authorization header is
\* not exactly "Bearer my-secret-token" is answered 401 whatever its method and
\* path, changes neither the collection nor the file, and never suspends in
\* the handler.
C4_UnauthenticatedGets401 ==
    [][/\ (Answers /\ resp'.method # "OPTIONS"
                   /\ resp'.authorization # "Bearer my-secret-token")
          => (resp'.status = 401 /\ UNCHANGED <<users, file, req>>)
       /\ \A r \in BagToSet(req') : r.authorization = "Bearer my-secret-token"]_vars

C4_Witness ==
    /\ resp.status = 401
    /\ resp.method = "DELETE"
    /\ resp.pathname = "/users"
    /\ resp.authorization = "Bearer wrong"
    /\ users # <<>>

\* C5 (as stated): a DELETE /users?id=N answered 200 removes exactly the record
\* with id N, which it returns, leaves the others as they were, and no later
\* step brings a record with id N into the collection (here: none while that
\* response is still the last one written).
C5_DeletedIdNeverReturns ==
    [][/\ AnswersWith("DELETE", 200) =>
            LET N == ToNumber(resp'.id)
                returned == DeletedUser(resp'.payload)
            IN /\ returned.id = N
               /\ \E k \in 1..Len(users) :
                     /\ users[k] = returned
                     /\ users' = SubSeq(users, 1, k - 1) \o SubSeq(users, k + 1, Len(users))
               /\ N \notin Ids(users')
       /\ (resp.method = "DELETE" /\ resp.status = 200)
            => ToNumber(resp.id) \notin Ids(users')]_vars

\* C5 (amended): a DELETE /users?id=N answered 200 removes exactly the record
\* with id N, which it returns, and leaves the others as they were; an id that
\* is absent from the collection comes into it only by a POST /users answered
\* 201 with that id.
C5_DeletedIdAbsentUntilPosted ==
    [][/\ AnswersWith("DELETE", 200) =>
            LET N == ToNumber(resp'.id)
                returned == DeletedUser(resp'.payload)
            IN /\ returned.id = N
               /\ \E k \in 1..Len(users) :
                     /\ users[k] = returned
                     /\ users' = SubSeq(users, 1, k - 1) \o SubSeq(users, k + 1, Len(users))
               /\ N \notin Ids(users')
       /\ \A n \in Ids(users') \ Ids(users) :
            /\ AnswersWith("POST", 201)
            /\ ParseUser(resp'.payload).id = n]_vars

C5_Witness ==
    /\ resp.method = "DELETE"
    /\ resp.status = 200
    /\ ToNumber(resp.id) = 2
    /\ Len(users) = 1
    /\ users[1].id = 1

\* C6: the answer of GET /users?id=N changes only by a step that is a PUT or a
\* DELETE answered 200 for ?id=N, or the POST answered 201 that creates N.
C6_GetStableUntilTargeted ==
    [][\A n \in 1..MaxId :
          GetById(users', n) # GetById(users, n) =>
             \/ AnswersWith("PUT", 200) /\ ToNumber(resp'.id) = n
             \/ AnswersWith("DELETE", 200) /\ ToNumber(resp'.id) = n
             \/ AnswersWith("POST", 201) /\ ParseUser(resp'.payload).id = n]_vars

\* C7: a PUT /users?id=N answered 200 has changed no record other than the
\* one whose id is N, and its payload is a record whose id is N.
C7_PutTouchesOnlyTarget ==
    [][AnswersWith("PUT", 200) =>
        LET N == ToNumber(resp'.id)
        IN /\ Len(users') = Len(users)
           /\ \A i \in 1..Len(users) : users'[i] # users[i] => users[i].id = N
           /\ resp'.payload # <<>>
           /\ ParseUser(resp'.payload).id = N]_vars

\* C8: a PUT /users?id=N answered 200 sets, in the record whose id is N, each
\* of name, email and role that the body holds to the body's value, and leaves
\* every other field and every other record as it was.
C8_PutAppliesPresentFields ==
    [][AnswersWith("PUT", 200) =>
        LET N == ToNumber(resp'.id)
            b == resp'.body
        IN /\ Len(users') = Len(users)
           /\ \A i \in 1..Len(users) :
                users'[i] =
                  IF users[i].id = N
                  THEN [id |-> users[i].id,
                        name |-> IF b.name # Absent THEN b.name ELSE users[i].name,
                        email |-> IF b.email # Absent THEN b.email ELSE users[i].email,
                        role |-> IF b.role # Absent THEN b.role ELSE users[i].role]
                  ELSE users[i]]_vars

\* C9: when the body of an authenticated POST /users has ended, the request is
\* answered: 400, with the collection and the file unchanged, if the body (an
\* empty object when it does not parse) has no non-empty name or no non-empty
\* email; otherwise 201 with the record {id, name, email, role} taken from the
\* body, role "viewer" when the body has none, which is then the last element
\* of the collection.
PostEnds ==
    /\ CopiesIn(Suspended("POST", "Bearer my-secret-token", Absent, -1), req')
         < CopiesIn(Suspended("POST", "Bearer my-secret-token", Absent, -1), req)
    /\ ~(up' /\ resp'.status = 0)

C9_PostOutcome ==
    [][PostEnds =>
        /\ Answers
        /\ resp'.method = "POST"
        /\ LET b == resp'.body
           IN IF b.name \in {Absent, ""} \/ b.email \in {Absent, ""}
              THEN resp'.status = 400 /\ UNCHANGED <<users, file>>
              ELSE /\ resp'.status = 201
                   /\ LET created == ParseUser(resp'.payload)
                      IN /\ created.name = b.name
                         /\ created.email = b.email
                         /\ created.role = (IF b.role \in {Absent, ""} THEN "viewer"
                                            ELSE b.role)
                         /\ users' # <<>>
                         /\ users'[Len(users')] = created]_vars

\* C10: a record leaves the collection, and the collection shrinks, only by a
\* DELETE answered 200 whose ?id is that record's id.
C10_OnlyDeleteRemoves ==
    [][/\ \A i \in 1..Len(users) :
            users[i].id \notin Ids(users') =>
               AnswersWith("DELETE", 200) /\ ToNumber(resp'.id) = users[i].id
       /\ Len(users') < Len(users) => AnswersWith("DELETE", 200)]_vars

C10_Witness ==
    /\ resp.method = "DELETE"
    /\ resp.status = 200
    /\ users = <<>>
    /\ DeletedUser(resp.payload).id = ToNumber(resp.id)

\* C11: an authenticated GET /users?id=N is answered 200 with the record of
\* the collection whose id is N when there is one at that moment, and 404
\* otherwise; an authenticated GET /users without id is answered 200 with the
\* whole collection, record for record in its current order.
C11_GetAnswersFromCollection ==
    [][(/\ Answers
        /\ resp'.method = "GET"
        /\ resp'.pathname = "/users"
        /\ resp'.authorization = "Bearer my-secret-token") =>
          IF resp'.id = Absent
          THEN resp'.status = 200 /\ Parse(resp'.payload) = users
          ELSE LET N == ToNumber(resp'.id)
               IN IF N \in Ids(users)
                  THEN /\ resp'.status = 200
                       /\ ParseUser(resp'.payload).id = N
                       /\ \E i \in 1..Len(users) : users[i] = ParseUser(resp'.payload)
                  ELSE resp'.status = 404]_vars

C11_Witness ==
    /\ resp.method = "GET"
    /\ resp.status = 200
    /\ resp.id = "2"
    /\ Len(users) = 2
    /\ users[1].id = 2
    /\ ParseUser(resp.payload) = users[1]

\* C12: the collection and the file keep the order of creation: a step that
\* changes the collection exchanges no two records that stay in it (so
\* neither PUT nor DELETE changes the relative order of the others), a record
\* that comes into the collection comes after all the others, and the file
\* lists the records in the order of the collection.
Position(us, n) == CHOOSE i \in 1..Len(us) : us[i].id = n

C13_PreflightAlways200 ==
    [][(Answers /\ resp'.method = "OPTIONS") =>
          /\ resp'.status = 200
          /\ resp'.payload = <<>>
          /\ resp'.body = Unread
          /\ UNCHANGED <<users, file, req>>]_vars

C13_Witness ==
    /\ resp.method = "OPTIONS"
    /\ resp.pathname = "/other"
    /\ resp.authorization = Absent
    /\ resp.status = 200
    /\ resp.payload = <<>>
    /\ users # <<>>

\* C14: an authenticated request that is not OPTIONS gets its status in this
\* order: 404 on a path other than /users, whatever the method; on /users, 405
\* for a method other than GET, POST, PUT, DELETE; 400 for a PUT or DELETE
\* without id; 404 for a PUT or DELETE whose id is not in the collection when
\* the handler looks it up, which for a PUT is before its body is read: a PUT
\* handler suspends for its body only with an id that is in the collection.
C14_StatusDecisionOrder ==
    [][/\ (/\ Answers
           /\ resp'.method # "OPTIONS"
           /\ resp'.authorization = "Bearer my-secret-token") =>
             IF resp'.pathname # "/users"
             THEN resp'.status = 404 /\ resp'.payload = ErrorBody("Route not found")
             ELSE IF resp'.method \notin {"GET", "POST", "PUT", "DELETE"}
             THEN resp'.status = 405
             ELSE IF resp'.method \in {"PUT", "DELETE"} /\ resp'.id = Absent
             THEN resp'.status = 400
             ELSE (/\ resp'.method \in {"PUT", "DELETE"}
                   /\ resp'.body = Unread
                   /\ ToNumber(resp'.id) \notin Ids(users))
                    => (resp'.status = 404
                        /\ resp'.payload = ErrorBody("User not found"))
       /\ \A r \in BagToSet(req') :
             (r.method = "PUT" /\ CopiesIn(r, req') > CopiesIn(r, req))
               => (r.id # Absent /\ ToNumber(r.id) \in Ids(users))]_vars

C14_Witness ==
    /\ resp.method = "PUT"
    /\ resp.pathname = "/users"
    /\ resp.status = 404
    /\ resp.id = "2"
    /\ users # <<>>
    /\ 2 \notin Ids(users)

\* ------------------------------------------------- one request at a time
\* lines 151-179 run with no other request between the lookup and the update
PutAlone(us, q, body) ==
    IF ~Truthy(q)
    THEN [status |-> 400, payload |-> ErrorBody("User ID is required"), users |-> us]
    ELSE IF findIndex(us, q) = -1
    THEN [status |-> 404, payload |-> ErrorBody("User not found"), users |-> us]
    ELSE LET i == findIndex(us, q) + 1
             updated == [us EXCEPT ![i] = UpdateFields(us[i], body)]
         IN [status |-> 200, payload |-> StringifyUser(updated[i]), users |-> updated]

\* lines 125-148 run with no other request in between
PostAlone(us, body) ==
    IF ~Truthy(body.name) \/ ~Truthy(body.email)
    THEN [status |-> 400, payload |-> ErrorBody("Name and email are required"),
          users |-> us]
    ELSE LET newUser == [id |-> newId(us),
                         name |-> body.name,
                         email |-> body.email,
                         role |-> IF Truthy(body.role) THEN body.role ELSE "viewer"]
         IN [status |-> 201, payload |-> StringifyUser(newUser), users |-> push(us, newUser)]

\* C15: requests in flight together are answered, and leave the collection,
\* as if they had run one at a time in some order.  A handler acts on the
\* collection in one step when its body has ended, so that order is the order
\* in which the handlers finish: the answer written after a body read, and
\* the collection it leaves, are those of the whole handler run alone on the
\* collection as it is when the body ends.
C15_AnswersAsOneAtATime ==
    [][(Answers /\ resp'.body # Unread) =>
          LET alone == IF resp'.method = "PUT"
                       THEN PutAlone(users, resp'.id, resp'.body)
                       ELSE PostAlone(users, resp'.body)
          IN /\ resp'.status = alone.status
             /\ resp'.payload = alone.payload
             /\ users' = alone.users]_vars

\* C16: a request whose body has ended is answered and the handler does not
\* fault, whatever was processed meanwhile; in the case the claim singles
\* out: when the body of a suspended PUT ends after DELETE requests have
\* taken away the element at the index it had found, the step that takes the
\* handler out of the suspended ones (a restart aside) writes its response
\* and the process stays up.
PutEndsAfterDelete ==
    /\ \E r \in BagToSet(req) :
          /\ r.method = "PUT"
          /\ r.userIndex >= Len(users)
          /\ CopiesIn(r, req') < CopiesIn(r, req)
    /\ ~(up' /\ resp'.status = 0)

C16_PutAnsweredAfterDelete ==
    [][PutEndsAfterDelete =>
          /\ up'
          /\ Answers
          /\ resp'.method = "PUT"
          /\ BagCardinality(req') = BagCardinality(req) - 1]_vars

\* C17: a step that answers 400, 401, 404 or 405, and a step that answers a
\* GET or an OPTIONS request, leaves the collection and the file exactly as
\* they were.
C17_RejectedAndReadOnlyChangeNothing ==
    [][(/\ Answers
        /\ \/ resp'.status \in {400, 401, 404, 405}
           \/ resp'.method \in {"GET", "OPTIONS"}) =>
          UNCHANGED <<users, file>>]_vars

C17_Witness ==
    /\ resp.method = "POST"
    /\ resp.status = 400
    /\ resp.body.name = ""
    /\ Len(users) = 2
    /\ Parse(file) = users

\* C18 (under SpecOverlap, where the body reads of MaxInFlight + 1 POST
\* requests overlap): when the valid body of a POST ends, whatever other POST
\* handlers are suspended or have finished meanwhile, the request is answered
\* 201 with a record whose id is that of no record in the collection; the
\* record becomes the last of the collection, every record that was there
\* stays as it was, the file holds the new collection, and the other
\* suspended handlers stay suspended.
C18_OverlappingPostsAllCreated ==
    [][(/\ Answers
        /\ resp'.method = "POST"
        /\ resp'.body # Unread
        /\ Truthy(resp'.body.name)
        /\ Truthy(resp'.body.email)) =>
          LET created == ParseUser(resp'.payload)
          IN /\ resp'.status = 201
             /\ created.id \notin Ids(users)
             /\ Len(users') = Len(users) + 1
             /\ \A i \in 1..Len(users) : users'[i] = users[i]
             /\ users'[Len(users')] = created
             /\ Parse(file') = users'
             /\ req' (+) SetToBag({Suspended("POST", resp'.authorization, Absent, -1)})
                  = req]_vars

\* one of the overlapping POSTs has been answered, another is still suspended
C18_Witness ==
    /\ resp.method = "POST"
    /\ resp.status = 201
    /\ BagCardinality(req) = MaxInFlight
    /\ \A r \in BagToSet(req) : r.method = "POST"
    /\ Len(users) = 1
    /\ users[1] = ParseUser(resp.payload)
    /\ Parse(file) = users
====
